---- MODULE Spec2Model ----
(***************************************************************************)
(* Model of sql-dump-splitter.py: the line scanner that splits an SQL dump *)
(* into units at lines containing configured SQL keywords.                 *)
(*                                                                         *)
(* Text is modelled as sequences of one-character strings, so that the     *)
(* substring tests, upper-casing, stripping and regular-expression         *)
(* searches are computed character by character as Python computes them.  *)
(*                                                                         *)
(* Line 84 of the source (`if any(keyword in processed_line.upper() ...`)  *)
(* is indented one column short of the block it sits in; it is modelled as *)
(* the guard of the name extraction of lines 86-88, which is how the       *)
(* surrounding comment and the specification read it.                      *)
(***************************************************************************)
EXTENDS Integers, Sequences, FiniteSets, TLC

(* ------------------------------ bounds --------------------------------- *)
MaxLines == 3
MaxTrigger == 3

(* ------------------------------ characters ----------------------------- *)
\* str.upper() restricted to ASCII letters
UpperMap ==
  [c \in {"a","b","c","d","e","f","g","h","i","j","k","l","m","n","o","p","q",
          "r","s","t","u","v","w","x","y","z"} |->
     CASE c = "a" -> "A" [] c = "b" -> "B" [] c = "c" -> "C" [] c = "d" -> "D"
       [] c = "e" -> "E" [] c = "f" -> "F" [] c = "g" -> "G" [] c = "h" -> "H"
       [] c = "i" -> "I" [] c = "j" -> "J" [] c = "k" -> "K" [] c = "l" -> "L"
       [] c = "m" -> "M" [] c = "n" -> "N" [] c = "o" -> "O" [] c = "p" -> "P"
       [] c = "q" -> "Q" [] c = "r" -> "R" [] c = "s" -> "S" [] c = "t" -> "T"
       [] c = "u" -> "U" [] c = "v" -> "V" [] c = "w" -> "W" [] c = "x" -> "X"
       [] c = "y" -> "Y" [] c = "z" -> "Z"]

UpperChar(c) == IF c \in DOMAIN UpperMap THEN UpperMap[c] ELSE c

\* s.upper()
upper(s) == [k \in 1..Len(s) |-> UpperChar(s[k])]

\* the characters str.strip() removes and the regex class \s matches
Whitespace == {" ", "\t", "\n", "\r", "\f"}

\* sub in s  (Python substring test, case-sensitive)
contains(sub, s) ==
  \E k \in 0..(Len(s) - Len(sub)) :
     \A j \in 1..Len(sub) : s[k + j] = sub[j]

\* not line.strip(): the line is empty once leading/trailing whitespace is removed
strip_is_empty(line) == \A k \in 1..Len(line) : line[k] \in Whitespace

\* str(n) for n >= 0
Digit == <<"0","1","2","3","4","5","6","7","8","9">>

RECURSIVE str(_)
str(n) == IF n < 10 THEN <<Digit[n + 1]>>
          ELSE str(n \div 10) \o <<Digit[(n % 10) + 1]>>

\* Python's None for a name; a successful extraction is never empty, and the
\* caller tests it by truthiness (`if extracted_name:`)
None == <<>>

(* ------------------------------ regex ---------------------------------- *)
\* the literal pattern `pat` matches at position k of line under re.IGNORECASE
LiteralAt(pat, line, k) ==
  /\ k + Len(pat) - 1 <= Len(line)
  /\ \A j \in 1..Len(pat) : UpperChar(line[k + j - 1]) = UpperChar(pat[j])

\* first index >= k at which line has a character in `stops`, or Len(line)+1
RECURSIVE ScanTo(_, _, _)
ScanTo(line, k, stops) ==
  IF k > Len(line) \/ line[k] \in stops THEN k ELSE ScanTo(line, k + 1, stops)

\* first index >= k at which line has a non-whitespace character, or Len(line)+1
RECURSIVE SkipSpace(_, _)
SkipSpace(line, k) ==
  IF k > Len(line) \/ line[k] \notin Whitespace THEN k ELSE SkipSpace(line, k + 1)

\* the token captured by  <pat>\s+([^\s<stop>]+)  when <pat> matches at k,
\* or None when the rest of the pattern does not match there
TokenAfter(pat, line, k, stop) ==
  LET e == k + Len(pat)              \* first index after the keyword
      t == SkipSpace(line, e)        \* \s+ is greedy
      u == ScanTo(line, t, Whitespace \cup {stop})
  IN IF LiteralAt(pat, line, k) /\ t > e /\ u > t
     THEN SubSeq(line, t, u - 1) ELSE None

\* re.search(r'(alt1|alt2|..)\s+([^\s<stop>]+)', line, re.IGNORECASE):
\* the capture of the leftmost match, alternatives tried in order; None if none
RECURSIVE SearchFrom(_, _, _, _)
SearchFrom(alts, line, k, stop) ==
  IF k > Len(line) THEN None
  ELSE LET ok == {a \in 1..Len(alts) : TokenAfter(alts[a], line, k, stop) # None}
       IN IF ok # {}
          THEN TokenAfter(alts[CHOOSE a \in ok : \A b \in ok : a <= b], line, k, stop)
          ELSE SearchFrom(alts, line, k + 1, stop)

re_search(alts, line, stop) == SearchFrom(alts, line, 1, stop)

(* ------------------------------ text constants ------------------------- *)
cDROP_TABLE == <<"D","R","O","P"," ","T","A","B","L","E">>
cCREATE_TABLE_IF_NOT_EXISTS == <<"C","R","E","A","T","E"," ","T","A","B","L","E"," ","I","F"," ","N","O","T"," ","E","X","I","S","T","S">>
c_create_or_replace_TABLE == <<"c","r","e","a","t","e"," ","o","r"," ","r","e","p","l","a","c","e"," ","T","A","B","L","E">>
cCREATE_OR_REPLACE_FUNCTION == <<"C","R","E","A","T","E"," ","O","R"," ","R","E","P","L","A","C","E"," ","F","U","N","C","T","I","O","N">>
c_create_or_replace_view == <<"c","r","e","a","t","e"," ","o","r"," ","r","e","p","l","a","c","e"," ","v","i","e","w">>
cCREATE_OR_REPLACE_PROCEDURE == <<"C","R","E","A","T","E"," ","O","R"," ","R","E","P","L","A","C","E"," ","P","R","O","C","E","D","U","R","E">>
cCREATE_OR_REPLACE_VIEW == <<"C","R","E","A","T","E"," ","O","R"," ","R","E","P","L","A","C","E"," ","V","I","E","W">>
cCREATE_TABLE == <<"C","R","E","A","T","E"," ","T","A","B","L","E">>
cSELECT == <<"S","E","L","E","C","T">>
wFUNCTION == <<"F","U","N","C","T","I","O","N">>
wVIEW == <<"V","I","E","W">>
wTABLE == <<"T","A","B","L","E">>
wPROCEDURE == <<"P","R","O","C","E","D","U","R","E">>

\* the built-in condition list
DEFAULT_SQL_CONDITIONS ==
  << cDROP_TABLE, cCREATE_TABLE_IF_NOT_EXISTS, c_create_or_replace_TABLE,
     cCREATE_OR_REPLACE_FUNCTION, c_create_or_replace_view,
     cCREATE_OR_REPLACE_PROCEDURE >>

\* a list given with --sql-conditions: a keyword with no extraction rule, an
\* upper-case VIEW keyword and a TABLE keyword
CUSTOM_SQL_CONDITIONS == << cSELECT, cCREATE_OR_REPLACE_VIEW, cDROP_TABLE >>

ConditionSets == {DEFAULT_SQL_CONDITIONS, CUSTOM_SQL_CONDITIONS}

\* the lines an input file is made of (each with its line terminator)
L_drop_foo == <<"D","R","O","P"," ","T","A","B","L","E"," ","f","o","o",";","\n">>
L_select == <<"S","E","L","E","C","T"," ","1",";","\n">>
L_drop_bar == <<"D","R","O","P"," ","T","A","B","L","E"," ","b","a","r",";","\n">>
L_lower_drop == <<"d","r","o","p"," ","t","a","b","l","e"," ","t",";","\n">>
L_lower_view == <<"c","r","e","a","t","e"," ","o","r"," ","r","e","p","l","a","c","e"," ","v","i","e","w"," ","v","\n">>
L_create_if == <<"C","R","E","A","T","E"," ","T","A","B","L","E"," ","I","F"," ","N","O","T"," ","E","X","I","S","T","S"," ","t"," ","(","\n">>
L_empty == <<"\n">>
L_space == <<" ","\n">>

Lines == {L_drop_foo, L_select, L_drop_bar, L_lower_drop, L_lower_view,
          L_create_if, L_empty, L_space}

RECURSIVE SeqsUpTo(_, _)
SeqsUpTo(S, n) ==
  IF n = 0 THEN {<<>>}
  ELSE LET shorter == SeqsUpTo(S, n - 1)
       IN shorter \cup {Append(q, x) : q \in {r \in shorter : Len(r) = n - 1}, x \in S}

Inputs == SeqsUpTo(Lines, MaxLines)

\* the lines of the input files of the runs in which reads and writes may fail
L_view_select == <<"C","R","E","A","T","E"," ","O","R"," ","R","E","P","L","A","C","E"," ","V","I","E","W"," ","v"," ","A","S"," ","S","E","L","E","C","T"," ","1",";","\n">>

FaultLines == {L_drop_foo, L_view_select, L_space}

FaultInputs == SeqsUpTo(FaultLines, MaxLines)

(* ------------------------------ functions ------------------------------ *)
\* ''.join(content)
RECURSIVE join(_)
join(content) ==
  IF content = <<>> THEN <<>> ELSE Head(content) \o join(Tail(content))

\* os.path.join(directory, f'{file_name}.sql') relative to the output directory
file_path(file_name) == file_name \o <<".","s","q","l">>

\* the output directory after save_file(content, directory, file_name):
\* open(.., 'w') creates the file or truncates an existing one
save_file(dir, content, file_name) ==
  [p \in DOMAIN dir \cup {file_path(file_name)} |->
     IF p = file_path(file_name) THEN join(content) ELSE dir[p]]

\* what a save_file call can meet: the write succeeds, open() raises IOError
\* (nothing is created), or write() raises IOError after open() truncated the
\* file (what was written before the failure is abstracted to nothing)
WriteOutcomes(faults) ==
  IF faults THEN {"ok", "open_failed", "write_failed"} ELSE {"ok"}

\* the output directory after the try block of save_file, lines 15-18
try_save_file(dir, content, file_name, outcome) ==
  CASE outcome = "ok" -> save_file(dir, content, file_name)
    [] outcome = "open_failed" -> dir
    [] outcome = "write_failed" -> save_file(dir, <<>>, file_name)

\* save_file without its except clause: the IOError reaches the caller
save_file_raises_uncaught(outcome) == outcome # "ok"

\* lines 19-20: the IOError is caught and printed, nothing leaves save_file
save_file_raises(outcome) == FALSE

\* should_split with `>` for `>=` in the threshold test
should_split_strict(line, sql_conditions, condition_hit_count, trigger_count) ==
  IF \E k \in 1..Len(sql_conditions) : contains(sql_conditions[k], line)
  THEN IF condition_hit_count + 1 > trigger_count
       THEN <<TRUE, condition_hit_count + 1>>
       ELSE <<FALSE, condition_hit_count + 1>>
  ELSE <<FALSE, condition_hit_count>>

\* returns <<split, condition_hit_count>>
should_split(line, sql_conditions, condition_hit_count, trigger_count) ==
  IF \E k \in 1..Len(sql_conditions) : contains(sql_conditions[k], line)
  THEN IF condition_hit_count + 1 >= trigger_count
       THEN <<TRUE, condition_hit_count + 1>>
       ELSE <<FALSE, condition_hit_count + 1>>
  ELSE <<FALSE, condition_hit_count>>

\* the regex search chosen by the category of one condition (lines 41-56)
category_search(condition, line) ==
  LET c == upper(condition)
  IN IF contains(wFUNCTION, c)
       THEN re_search(<<cCREATE_OR_REPLACE_FUNCTION>>, line, "(")
     ELSE IF contains(wVIEW, c)
       THEN re_search(<<cCREATE_OR_REPLACE_VIEW>>, line, ";")
     ELSE IF contains(wTABLE, c)
       THEN re_search(<<cCREATE_TABLE, cDROP_TABLE>>, line, ";")
     ELSE IF contains(wPROCEDURE, c)
       THEN re_search(<<cCREATE_OR_REPLACE_PROCEDURE>>, line, "(")
     ELSE None

\* the for loop of extract_function_name from condition k on
RECURSIVE extract_from(_, _, _)
extract_from(line, sql_conditions, k) ==
  IF k > Len(sql_conditions) THEN None
  ELSE LET m == IF contains(upper(sql_conditions[k]), upper(line))
                THEN category_search(sql_conditions[k], line) ELSE None
       IN IF m # None THEN m ELSE extract_from(line, sql_conditions, k + 1)

\* extract_function_name that stops at the first condition occurring in the
\* line, whether or not its rule yields a token
extract_function_name_first_only(line, sql_conditions) ==
  IF \E k \in 1..Len(sql_conditions) :
        contains(upper(sql_conditions[k]), upper(line))
  THEN category_search(
         sql_conditions[CHOOSE k \in 1..Len(sql_conditions) :
            /\ contains(upper(sql_conditions[k]), upper(line))
            /\ \A j \in 1..(k - 1) :
                  ~contains(upper(sql_conditions[j]), upper(line))], line)
  ELSE None

extract_function_name(line, sql_conditions) == extract_from(line, sql_conditions, 1)

\* handle_line that never drops a line
handle_line_never_skips(line, ignore_blank_lines) == line

\* handle_line that drops blank lines whatever the flag says
handle_line_always_skips(line, ignore_blank_lines) ==
  IF strip_is_empty(line) THEN None ELSE line

\* None when the line is skipped; iterating a file never yields an empty string
handle_line(line, ignore_blank_lines) ==
  IF ignore_blank_lines /\ strip_is_empty(line) THEN None ELSE line

\* line 84: any(keyword in processed_line.upper() for keyword in sql_conditions)
keyword_in_upper(processed_line, sql_conditions) ==
  \E k \in 1..Len(sql_conditions) : contains(sql_conditions[k], upper(processed_line))

\* lines 84-86: extracted_name, None when the guard of line 84 is false
extracted_name(processed_line, sql_conditions) ==
  IF keyword_in_upper(processed_line, sql_conditions)
  THEN extract_function_name(processed_line, sql_conditions)
  ELSE None

\* the extracted name is never assigned to file_name
name_after_extract_ignored(extracted, file_name) == file_name

\* lines 87-88: file_name after `if extracted_name: file_name = extracted_name`
name_after_extract(extracted, file_name) ==
  IF extracted # None THEN extracted ELSE file_name

\* line 94 missing: the pending lines are not cleared at a cut
next_content_keeps_pending(split, current_content, processed_line) ==
  Append(current_content, processed_line)

\* the append of line 98 placed in an else branch of `if split`
next_content_drops_cut_line(split, current_content, processed_line) ==
  IF split THEN <<>> ELSE Append(current_content, processed_line)

\* lines 94 and 98: current_content at the end of the iteration
next_content(split, current_content, processed_line) ==
  IF split THEN <<processed_line>> ELSE Append(current_content, processed_line)

\* the final flush without its guard
pending_always(current_content) == TRUE

\* line 100: `if current_content:`
pending(current_content) == current_content # <<>>

\* default names counted from 1
default_name_from_one(file_count) == <<"f","i","l","e","_">> \o str(file_count + 1)

\* f'file_{file_count}'
default_name(file_count) == <<"f","i","l","e","_">> \o str(file_count)

(* ------------------------------ state ---------------------------------- *)
VARIABLES
  input,                \* the lines of the input file, in order
  trigger_count,        \* --trigger-count
  ignore_blank_lines,   \* --ignore-blank-lines
  sql_conditions,       \* --sql-conditions
  faults,               \* whether reads and writes may fail in this run
  pc,                   \* "loop" inside the with block, "done" after the return
  i,                    \* index in input of the next line the for loop reads
  current_content,
  condition_hit_count,
  file_name,
  file_count,
  directory,            \* the output directory: path -> file content
  error,                \* "none", or what the except clause of line 103 caught
  saved,                \* history: the save_file calls so far, <<name, content>>
  writes,               \* history: the outcome of each save_file call so far
  log                   \* history: what the loop did with each line read so far

vars == << input, trigger_count, ignore_blank_lines, sql_conditions, faults, pc, i,
           current_content, condition_hit_count, file_name, file_count,
           directory, error, saved, writes, log >>

params == << input, trigger_count, ignore_blank_lines, sql_conditions, faults >>

\* process_file, lines 69-77, in an environment where no read or write fails
Init ==
  /\ input \in Inputs
  /\ trigger_count \in 1..MaxTrigger
  /\ ignore_blank_lines \in BOOLEAN
  /\ sql_conditions \in ConditionSets
  /\ faults = FALSE
  /\ pc = "loop"
  /\ i = 1
  /\ current_content = <<>>
  /\ condition_hit_count = 0
  /\ file_count = 0
  /\ file_name = default_name(0)
  /\ directory = [p \in {} |-> <<>>]
  /\ error = "none"
  /\ saved = <<>>
  /\ writes = <<>>
  /\ log = <<>>

\* process_file, lines 69-77, in an environment where reads and writes may fail
InitFaults ==
  /\ input \in FaultInputs
  /\ trigger_count \in 1..MaxTrigger
  /\ ignore_blank_lines \in BOOLEAN
  /\ sql_conditions \in ConditionSets
  /\ faults = TRUE
  /\ pc = "loop"
  /\ i = 1
  /\ current_content = <<>>
  /\ condition_hit_count = 0
  /\ file_count = 0
  /\ file_name = default_name(0)
  /\ directory = [p \in {} |-> <<>>]
  /\ error = "none"
  /\ saved = <<>>
  /\ writes = <<>>
  /\ log = <<>>

\* one iteration of the for loop, lines 79-98
ProcessLine ==
  /\ pc = "loop"
  /\ i <= Len(input)
  /\ LET processed_line == handle_line(input[i], ignore_blank_lines)
         attempted == keyword_in_upper(processed_line, sql_conditions)
         extracted == extracted_name(processed_line, sql_conditions)
         name == name_after_extract(extracted, file_name)
         r == should_split(processed_line, sql_conditions,
                           condition_hit_count, trigger_count)
     IN IF processed_line = None
        THEN /\ log' = Append(log, [skipped |-> TRUE, attempted |-> FALSE,
                                    extracted |-> None, name |-> file_name,
                                    hit |-> FALSE, split |-> FALSE])
             /\ UNCHANGED << current_content, condition_hit_count, file_name,
                             file_count, directory, saved, writes, pc, error >>
        ELSE /\ log' = Append(log, [skipped |-> FALSE, attempted |-> attempted,
                                    extracted |-> extracted, name |-> name,
                                    hit |-> r[2] # condition_hit_count,
                                    split |-> r[1]])
             /\ IF r[1]
                THEN \E outcome \in WriteOutcomes(faults) :
                       /\ directory' = try_save_file(directory, current_content,
                                                     name, outcome)
                       /\ saved' = Append(saved, <<name, current_content>>)
                       /\ writes' = Append(writes, outcome)
                       /\ IF save_file_raises(outcome)
                          THEN \* the exception leaves the loop for line 103
                               /\ pc' = "done"
                               /\ error' = "save"
                               /\ file_name' = name
                               /\ condition_hit_count' = r[2]
                               /\ UNCHANGED << current_content, file_count >>
                          ELSE /\ current_content' =
                                    next_content(TRUE, current_content, processed_line)
                               /\ file_count' = file_count + 1
                               /\ condition_hit_count' = 0
                               /\ file_name' = default_name(file_count + 1)
                               /\ UNCHANGED << pc, error >>
                ELSE /\ current_content' =
                          next_content(FALSE, current_content, processed_line)
                     /\ condition_hit_count' = r[2]
                     /\ file_name' = name
                     /\ UNCHANGED << file_count, directory, saved, writes, pc, error >>
  /\ i' = i + 1
  /\ UNCHANGED params

\* end of input with lines pending, lines 100-102 and the return
Flush ==
  /\ pc = "loop"
  /\ i > Len(input)
  /\ pending(current_content)
  /\ \E outcome \in WriteOutcomes(faults) :
       /\ directory' = try_save_file(directory, current_content, file_name, outcome)
       /\ saved' = Append(saved, <<file_name, current_content>>)
       /\ writes' = Append(writes, outcome)
       /\ IF save_file_raises(outcome)
          THEN error' = "save" /\ UNCHANGED file_count
          ELSE file_count' = file_count + 1 /\ UNCHANGED error
  /\ pc' = "done"
  /\ UNCHANGED << params, i, current_content, condition_hit_count, file_name, log >>

\* end of input with nothing pending, line 100 and the return
Return ==
  /\ pc = "loop"
  /\ i > Len(input)
  /\ ~pending(current_content)
  /\ pc' = "done"
  /\ UNCHANGED << params, i, current_content, condition_hit_count, file_name,
                  file_count, directory, error, saved, writes, log >>

\* an except clause that saves the pending lines before returning
ReadError_flushes ==
  /\ pc = "loop"
  /\ faults
  /\ i <= Len(input) \/ i = 1
  /\ pc' = "done"
  /\ error' = "read"
  /\ directory' = save_file(directory, current_content, file_name)
  /\ saved' = Append(saved, <<file_name, current_content>>)
  /\ writes' = Append(writes, "ok")
  /\ file_count' = file_count + 1
  /\ UNCHANGED << params, i, current_content, condition_hit_count, file_name, log >>

\* open() raises (i = 1), or reading line i raises inside the for loop (an
\* OSError or UnicodeDecodeError of the chunk the line is in): lines 103-104
\* catch it, nothing is flushed, and line 106 returns file_count as it is
ReadError ==
  /\ pc = "loop"
  /\ faults
  /\ i <= Len(input) \/ i = 1
  /\ pc' = "done"
  /\ error' = "read"
  /\ UNCHANGED << params, i, current_content, condition_hit_count, file_name,
                  file_count, directory, saved, writes, log >>

Next == ProcessLine \/ Flush \/ Return

Spec == Init /\ [][Next]_vars

NextFaults == ProcessLine \/ Flush \/ Return \/ ReadError

SpecFaults == InitFaults /\ [][NextFaults]_vars

(* ------------------------------ properties ----------------------------- *)
\* the line is empty or whitespace-only
IsBlank(line) == \A k \in 1..Len(line) : line[k] \in {" ", "\t", "\n", "\r", "\f"}

\* the line is not dropped by the blank-line filter
Kept(line) == ~(ignore_blank_lines /\ IsBlank(line))

FilteredInput == SelectSeq(input, Kept)

\* the lines of a sequence of <<name, content>> units, in emission order
RECURSIVE UnitsLines(_)
UnitsLines(units) ==
  IF units = <<>> THEN <<>> ELSE Head(units)[2] \o UnitsLines(Tail(units))

\* number of lines read so far, up to index p, that incremented the hit counter
HitsUpTo(p) == Cardinality({q \in 1..p : log[q].hit})

\* number of cuts performed by the lines read so far
Cuts == Cardinality({q \in 1..Len(log) : log[q].split})

\* the condition occurs in the line, compared case-insensitively
MatchesIgnoringCase(line, conditions) ==
  \E k \in 1..Len(conditions) : contains(upper(conditions[k]), upper(line))

Scenario == <<L_drop_foo, L_select, L_drop_bar>>

\* C1: once process_file is done, the lines of all units passed to save_file,
\* concatenated in emission order, are exactly the input lines that handle_line
\* did not drop, in input order.
C1_Reconcatenation ==
  pc = "done" => UnitsLines(saved) = FilteredInput

C1_Witness ==
  /\ pc = "done"
  /\ Len(saved) >= 2
  /\ Len(FilteredInput) >= 2
  /\ Len(FilteredInput) < Len(input)

\* C2: for the input DROP TABLE foo; / SELECT 1; / DROP TABLE bar; with trigger
\* count 1 and the default conditions, exactly two units are emitted: "foo" with
\* the first two lines, then "bar" with the third line.
C2_EndToEnd ==
  (/\ pc = "done"
   /\ input = Scenario
   /\ trigger_count = 1
   /\ sql_conditions = DEFAULT_SQL_CONDITIONS)
  => saved = << << <<"f","o","o">>, <<L_drop_foo, L_select>> >>,
                << <<"b","a","r">>, <<L_drop_bar>> >> >>

\* C3 as stated: for the same input with trigger count 2, a single unit named
\* "bar" holding all three lines is emitted.
C3_SingleUnit ==
  (/\ pc = "done"
   /\ input = Scenario
   /\ trigger_count = 2
   /\ sql_conditions = DEFAULT_SQL_CONDITIONS)
  => saved = << << <<"b","a","r">>, <<L_drop_foo, L_select, L_drop_bar>> >> >>

\* C3 amended: for the same input with trigger count 2, the second hit (the
\* third line) cuts: the first two lines are emitted under the name "bar", and
\* the final flush emits the third line under the default name file_1.
C3_TwoUnits ==
  (/\ pc = "done"
   /\ input = Scenario
   /\ trigger_count = 2
   /\ sql_conditions = DEFAULT_SQL_CONDITIONS)
  => saved = << << <<"b","a","r">>, <<L_drop_foo, L_select>> >>,
                << <<"f","i","l","e","_","1">>, <<L_drop_bar>> >> >>

C3_Witness ==
  /\ pc = "done"
  /\ input = Scenario
  /\ trigger_count = 2
  /\ sql_conditions = DEFAULT_SQL_CONDITIONS
  /\ Len(saved) = 2

\* C4: a line cuts exactly when it is counted as a hit and the number of hits
\* seen so far is a multiple of the trigger count; at the end the number of cuts
\* is floor(K / T) for K hits, and the units saved are the cuts plus the flush.
C4_CutCount ==
  /\ \A p \in 1..Len(log) :
        log[p].split <=> (log[p].hit /\ HitsUpTo(p) % trigger_count = 0)
  /\ Cuts = HitsUpTo(Len(log)) \div trigger_count
  /\ pc = "done" =>
        Len(saved) = Cuts + (IF current_content # <<>> THEN 1 ELSE 0)

C4_Witness ==
  /\ pc = "done"
  /\ trigger_count = 2
  /\ HitsUpTo(Len(log)) = 3
  /\ Cuts = 1

\* C5 as stated: an input with no line matching any condition yields exactly
\* one unit, named file_0, holding all lines that were not skipped.
C5_OneDefaultUnit ==
  (pc = "done" /\ \A p \in 1..Len(input) : ~MatchesIgnoringCase(input[p], sql_conditions))
  => saved = << <<default_name(0), FilteredInput>> >>

\* C5 amended: an input with no line matching any condition and at least one
\* line that is not skipped yields exactly one unit, named file_0, holding all
\* lines that were not skipped.
C5_DefaultNaming ==
  (/\ pc = "done"
   /\ \A p \in 1..Len(input) : ~MatchesIgnoringCase(input[p], sql_conditions)
   /\ FilteredInput # <<>>)
  => saved = << << <<"f","i","l","e","_","0">>, FilteredInput >> >>

C5_Witness ==
  /\ pc = "done"
  /\ \A p \in 1..Len(input) : ~MatchesIgnoringCase(input[p], sql_conditions)
  /\ Len(FilteredInput) >= 2
  /\ Len(FilteredInput) < Len(input)
  /\ Len(saved) = 1

\* C6: a line that is not skipped increments the hit counter if and only if
\* its upper-cased text contains the upper-cased form of some condition.
C6_CaseInsensitiveHit ==
  \A p \in 1..Len(log) :
     ~log[p].skipped =>
        (log[p].hit <=> MatchesIgnoringCase(input[p], sql_conditions))

\* index of the condition whose rule yields the name extracted from the line
ExtractingCondition(line, conditions) ==
  CHOOSE k \in 1..Len(conditions) :
     /\ contains(upper(conditions[k]), upper(line))
     /\ category_search(conditions[k], line) # None
     /\ \A j \in 1..(k - 1) :
           ~(/\ contains(upper(conditions[j]), upper(line))
             /\ category_search(conditions[j], line) # None)

\* positions in a unit's content of the lines that yield a name
NamedLines(content) ==
  {q \in 1..Len(content) : extracted_name(content[q], sql_conditions) # None}

\* C7: a unit that received two lines yielding names from different conditions
\* is emitted under the name extracted from the later of its name-yielding
\* lines.
C7_LastNameWins ==
  \A u \in 1..Len(saved) :
     LET content == saved[u][2]
         named == NamedLines(content)
     IN (\E a, b \in named :
            /\ a < b
            /\ ExtractingCondition(content[a], sql_conditions)
                 # ExtractingCondition(content[b], sql_conditions))
        => saved[u][1] =
             extracted_name(content[CHOOSE q \in named : \A r \in named : r <= q],
                            sql_conditions)

\* index of the first condition occurring in the line, compared
\* case-insensitively
FirstMatching(line, conditions) ==
  CHOOSE k \in 1..Len(conditions) :
     /\ contains(upper(conditions[k]), upper(line))
     /\ \A j \in 1..(k - 1) : ~contains(upper(conditions[j]), upper(line))

\* the condition is dispatched to the TABLE rule
IsTableCondition(condition) ==
  /\ ~contains(wFUNCTION, upper(condition))
  /\ ~contains(wVIEW, upper(condition))
  /\ contains(wTABLE, upper(condition))

\* word is one of the space-separated words of phrase
IsWordOf(word, phrase) ==
  contains(<<" ">> \o word \o <<" ">>, <<" ">> \o phrase \o <<" ">>)

\* C8: for every line read whose first matching condition is a TABLE
\* condition, extract_function_name returns a name, and that name is not a word
\* of the keyword phrase.
C8_TableName ==
  \A p \in 1..Len(log) :
     (/\ MatchesIgnoringCase(input[p], sql_conditions)
      /\ IsTableCondition(sql_conditions[FirstMatching(input[p], sql_conditions)]))
     => LET name == extract_function_name(input[p], sql_conditions)
            condition == sql_conditions[FirstMatching(input[p], sql_conditions)]
        IN /\ name # None
           /\ ~IsWordOf(upper(name), upper(condition))

\* C9: once process_file is done, the output directory holds as many files as
\* units were emitted, every unit's file holds that unit's lines, and every
\* unit is named by a name extracted from a line or by file_<index> with its
\* zero-based index.
C9_OneFilePerUnit ==
  pc = "done" =>
    /\ Cardinality(DOMAIN directory) = Len(saved)
    /\ \A u \in 1..Len(saved) :
          /\ file_path(saved[u][1]) \in DOMAIN directory
          /\ directory[file_path(saved[u][1])] = join(saved[u][2])
          /\ \/ saved[u][1] = <<"f","i","l","e","_">> \o str(u - 1)
             \/ \E p \in 1..Len(log) :
                   log[p].extracted # None /\ saved[u][1] = log[p].extracted

\* C10: with ignore-blank-lines enabled no emitted unit holds a blank or
\* whitespace-only line; with it disabled the emitted lines are the input lines
\* position by position, the blank ones included.
C10_BlankLines ==
  LET out == UnitsLines(saved)
  IN /\ ignore_blank_lines => \A k \in 1..Len(out) : ~IsBlank(out[k])
     /\ (~ignore_blank_lines /\ pc = "done") =>
           /\ Len(out) = Len(input)
           /\ \A p \in 1..Len(input) : IsBlank(input[p]) => out[p] = input[p]

C10_Witness ==
  /\ pc = "done"
  /\ ignore_blank_lines
  /\ Len(input) = MaxLines
  /\ IsBlank(input[2])
  /\ ~IsBlank(input[1])
  /\ ~IsBlank(input[3])
  /\ Len(UnitsLines(saved)) = 2

\* the units process_file saves for the given lines when no read and no write
\* fails: the loop of lines 79-102 from line k on, as a function
RECURSIVE units_from(_, _, _, _, _, _)
units_from(lines, k, content, count, name, n) ==
  IF k > Len(lines)
  THEN IF pending(content) THEN << <<name, content>> >> ELSE <<>>
  ELSE LET processed_line == handle_line(lines[k], ignore_blank_lines)
           new_name == name_after_extract(
                         extracted_name(processed_line, sql_conditions), name)
           r == should_split(processed_line, sql_conditions, count, trigger_count)
       IN IF processed_line = None
          THEN units_from(lines, k + 1, content, count, name, n)
          ELSE IF r[1]
          THEN << <<new_name, content>> >>
               \o units_from(lines, k + 1, <<processed_line>>, 0,
                             default_name(n + 1), n + 1)
          ELSE units_from(lines, k + 1, Append(content, processed_line),
                          r[2], new_name, n)

units_of(lines) == units_from(lines, 1, <<>>, 0, default_name(0), 0)

\* C11: whichever save_file calls fail, a run whose reads succeed reads every
\* line, no exception reaches process_file, and the units it has passed to
\* save_file at the end are those of the run in which no write fails.
C11_WriteFailureIsolated ==
  (pc = "done" /\ error # "read") =>
     /\ error = "none"
     /\ Len(log) = Len(input)
     /\ saved = units_of(input)
     /\ file_count = Len(saved)

C11_Witness ==
  /\ pc = "done"
  /\ error = "none"
  /\ Len(saved) = 3
  /\ writes[1] # "ok"
  /\ writes[2] = "ok"
  /\ writes[3] = "write_failed"

\* C12 as stated: when reading the input fails, no save_file call has been
\* made and the returned unit count is 0.
C12_ZeroUnitsOnReadFailure ==
  (pc = "done" /\ error = "read") => (saved = <<>> /\ file_count = 0)

\* C12 amended: when open() or the first read fails, no save_file call has been
\* made and the returned count is 0; when a later read fails, nothing is
\* flushed: the save_file calls made are those of the cuts triggered by the
\* lines read before the failure, and the returned count is their number.
C12_ReadFailure ==
  (pc = "done" /\ error = "read") =>
     /\ Len(saved) = Cuts
     /\ file_count = Len(saved)
     /\ saved = SubSeq(units_of(input), 1, Len(saved))
     /\ Len(log) = 0 =>
           (saved = <<>> /\ file_count = 0 /\ DOMAIN directory = {})

C12_Witness ==
  /\ pc = "done"
  /\ error = "read"
  /\ Len(log) = 2
  /\ Len(saved) = 1
  /\ current_content # <<>>

\* C13: an input with no line, or whose lines are all skipped by the
\* blank-line filter, ends without an exception, with no save_file call, an
\* empty output directory and a returned count of 0.
C13_EmptyInput ==
  (pc = "done" /\ FilteredInput = <<>>) =>
     /\ error = "none"
     /\ saved = <<>>
     /\ file_count = 0
     /\ DOMAIN directory = {}

C13_Witness ==
  /\ pc = "done"
  /\ Len(input) >= 2
  /\ FilteredInput = <<>>
  /\ Len(log) = Len(input)

\* C14: every line that increments the hit counter has name extraction
\* attempted on it, and only those lines have; and when a name can be extracted
\* from such a line, file_name is that name when the cut decision is taken.
C14_ExtractionOnHits ==
  \A p \in 1..Len(log) :
     ~log[p].skipped =>
        /\ log[p].attempted <=> log[p].hit
        /\ (log[p].hit /\ extract_function_name(input[p], sql_conditions) # None)
              => log[p].name = extract_function_name(input[p], sql_conditions)

\* C15: in a step that cuts, the unit passed to save_file holds exactly the
\* lines that were pending before the step, so not the line that triggered the
\* cut, and after the step that line alone is pending, as the first line of the
\* next unit.
C15_CutBeforeAppend ==
  [][(i' = i + 1 /\ Len(saved') > Len(saved)) =>
        /\ Len(saved') = Len(saved) + 1
        /\ saved'[Len(saved')][2] = current_content
        /\ current_content' = <<input[i]>>]_vars

C15_Witness ==
  /\ pc = "loop"
  /\ Len(log) >= 2
  /\ log[Len(log)].split
  /\ Len(saved[Len(saved)][2]) >= 1
  /\ current_content = <<input[Len(log)]>>

\* indexes of the conditions that occur in the line (case-insensitively) and
\* whose category rule yields a token
Yielding(line, conditions) ==
  {k \in 1..Len(conditions) :
     /\ contains(upper(conditions[k]), upper(line))
     /\ category_search(conditions[k], line) # None}

C17_SkippedLineFrame ==
  /\ [][(pc = "loop" /\ i <= Len(input) /\ i' = i + 1 /\ ~Kept(input[i])) =>
          UNCHANGED << current_content, condition_hit_count, file_name,
                       file_count, saved, directory >>]_vars
  /\ []((pc = "done" /\ error = "none" /\ FilteredInput # input) =>
          saved = units_of(FilteredInput))

C17_Witness ==
  /\ pc = "loop"
  /\ Len(log) >= 2
  /\ log[Len(log)].skipped
  /\ current_content # <<>>
  /\ condition_hit_count >= 1
  /\ file_name # default_name(file_count)

\* C18: file_count starts at 0 and always equals the number of save_file
\* calls made so far, so it equals the number of units emitted when
\* process_file returns it; a step never decreases it and increases it by
\* exactly 1 when it emits a unit; and after a cut file_name is file_<n> for the
\* new value n of file_count.
C18_UnitIndex ==
  /\ file_count = 0
  /\ [](file_count = Len(saved))
  /\ [][/\ file_count' \in {file_count, file_count + 1}
        /\ Len(saved') > Len(saved) => file_count' = file_count + 1
        /\ (i' = i + 1 /\ Len(saved') > Len(saved)) =>
              file_name' = <<"f","i","l","e","_">> \o str(file_count')]_vars

C18_Witness ==
  /\ pc = "loop"
  /\ Len(log) >= 2
  /\ log[Len(log)].split
  /\ file_count = 2
  /\ file_name = <<"f","i","l","e","_","2">>

\* C19: no unit passed to save_file, by a cut or by the final flush, has an
\* empty line sequence.
C19_NoEmptyUnit ==
  \A u \in 1..Len(saved) : saved[u][2] # <<>>

\* C20: between steps the hit counter is at least 0 and below the trigger
\* count; a step leaves it unchanged, adds 1 to it on a line counted as a hit
\* that does not cut, or resets it to 0 at a cut, and it is 0 after every cut.
C20_HitCountRange ==
  /\ [](0 <= condition_hit_count /\ condition_hit_count < trigger_count)
  /\ [][/\ \/ condition_hit_count' = condition_hit_count
           \/ /\ condition_hit_count' = condition_hit_count + 1
              /\ Len(saved') = Len(saved)
              /\ i' = i + 1
              /\ \E k \in 1..Len(sql_conditions) : contains(sql_conditions[k], input[i])
           \/ /\ condition_hit_count' = 0
              /\ Len(saved') > Len(saved)
        /\ (i' = i + 1 /\ Len(saved') > Len(saved)) => condition_hit_count' = 0]_vars

C20_Witness ==
  /\ pc = "loop"
  /\ trigger_count = 3
  /\ condition_hit_count = 2
  /\ Len(log) >= 2
  /\ log[Len(log)].hit

====
